---- MODULE Spec2Model ----
(***************************************************************************)
(* Adrian's Course Capture, src/content-script.js: the session aggregator *)
(* (the background script, lines 901-1255) and the content script of one  *)
(* frame (lines 24-810).  Spec and SpecNav follow the aggregator,          *)
(* SpecFrame, SpecRelay and SpecImages follow a frame whose messages come  *)
(* from its environment.                                                   *)
(*                                                                         *)
(* The aggregator runs on one event loop: every handler runs to its first  *)
(* await without interruption, and the part after an await is a separate   *)
(* step that can be interleaved with other handlers.                       *)
(*                                                                         *)
(* A text is kept run-length encoded: a sequence of <<char, count>> runs,  *)
(* adjacent runs having different chars.  Chars are numbers; 0..9 are the  *)
(* decimal digit characters.                                               *)
(***************************************************************************)
EXTENDS Integers, Sequences, FiniteSets, TLC

\* ------------------------------------------------------------------ bounds
NumTabs == 2
MaxPending == 2
MaxTime == 500
TickMs == 500
NumImages == 2
NumChildren == 1
MaxMutations == 2
MaxTimers == 2
MaxClicks == 2
MaxDepthIn == 12
FrameEpoch == 1000
ChainDepth == 14
MaxSubmits == 2
ThrottleTick == 125
MaxClock == 500
MaxWaiters == 2

\* --------------------------------------------------------- program constants
MAX_CAPTURE_SIZE == 10 * 1024 * 1024
HashPrefixLen == 100

NoTab == 0
NoTime == -1
Tabs == 1..NumTabs
Senders == Tabs \cup {NoTab}

\* ------------------------------------------------------------------- texts
RECURSIVE TextLength(_)
TextLength(t) == IF t = <<>> THEN 0 ELSE Head(t)[2] + TextLength(Tail(t))

RECURSIVE Substring(_, _)
Substring(t, n) ==
  IF t = <<>> \/ n <= 0 THEN <<>>
  ELSE IF Head(t)[2] >= n THEN << <<Head(t)[1], n>> >>
  ELSE <<Head(t)>> \o Substring(Tail(t), n - Head(t)[2])

Concat(a, b) ==
  IF a = <<>> THEN b
  ELSE IF b = <<>> THEN a
  ELSE IF a[Len(a)][1] = Head(b)[1]
       THEN SubSeq(a, 1, Len(a) - 1)
            \o << <<Head(b)[1], a[Len(a)][2] + Head(b)[2]>> >>
            \o Tail(b)
       ELSE a \o b

RECURSIVE NumberToString(_)
NumberToString(n) ==
  IF n < 10 THEN << <<n, 1>> >>
  ELSE Concat(NumberToString(n \div 10), << <<n % 10, 1>> >>)

\* Hash with the prefix cut one character too late.
HashLongerPrefix(text) ==
  Concat(Substring(text, HashPrefixLen + 1), NumberToString(TextLength(text)))

Hash(text) == Concat(Substring(text, HashPrefixLen), NumberToString(TextLength(text)))

\* EntrySize counting one byte per character.
EntrySizeOneByte(text) == TextLength(text)

EntrySize(text) == TextLength(text) * 2

\* The captureText handler reads entry.text of any length, so the inputs
\* include texts whose cost alone reaches the budget.
ShortText == << <<10, 12>> >>
LongTextA == << <<10, 100>>, <<11, 1>> >>
LongTextB == << <<10, 100>>, <<12, 1>> >>
HugeText == << <<11, 5242880>> >>
Entries ==
  {[text |-> ShortText, frameId |-> "main", url |-> "https://a/", timestamp |-> 0],
   [text |-> LongTextA, frameId |-> "main", url |-> "https://a/", timestamp |-> 1500],
   [text |-> LongTextB, frameId |-> "frame", url |-> "https://b/f", timestamp |-> 0],
   [text |-> HugeText, frameId |-> "frame", url |-> "https://b/f", timestamp |-> 1500]}

NoEntry == [text |-> <<>>, frameId |-> "none", url |-> "", timestamp |-> 0]

\* The handler that ran last: its name, the tab it was called for (the
\* sender's tab of a submit), the entry of a submit, and what it did.
Last(op, tab, entry, outcome) ==
  [op |-> op, tab |-> tab, entry |-> entry, outcome |-> outcome]

\* ------------------------------------------------------------------- state
\* isCapturing .. currentCaptureSize: the background script's globals.
\* pendingStop / pendingAutoStop: calls of stopCapture / autoStopCapture
\*   that wait at their await for the directive they sent.
\* now: the clock new Date() reads; closedTabs: tabs that were removed.
\* out: the collaborator calls (directives, file deliveries) made by the
\*   last step, in order; last: the handler that ran last and its outcome.
\* autoStoppedSent, stopSent, delivered, emptyStop: history of the current
\*   session (since the last start): autoStopped directives sent, a stop
\*   directive was sent, a file was delivered, it was stopped while empty.
VARIABLES isCapturing, captureStartTime, capturedText, seenHashes,
          activeTabId, currentCaptureSize,
          pendingStop, pendingAutoStop,
          now, closedTabs, out, last,
          autoStoppedSent, stopSent, delivered, emptyStop,
          nav,
          isTopFrame, frameCapturing, frameStartTime, frameEntryCount,
          seenText, observer, pendingMutations, processingScheduled,
          throttleTimers, resync, recv, iframeFlashCooldowns,
          imageDotsAdded, imageDots, loadListeners, saveRequests,
          signal, channel, throttleDue, notifiedAt,
          hasBody, bodyWaiters, orphanObservers

aggVars == <<isCapturing, captureStartTime, capturedText, seenHashes,
             activeTabId, currentCaptureSize>>
histVars == <<autoStoppedSent, stopSent, delivered, emptyStop>>
vars == <<isCapturing, captureStartTime, capturedText, seenHashes,
          activeTabId, currentCaptureSize, pendingStop, pendingAutoStop,
          now, closedTabs, out, last,
          autoStoppedSent, stopSent, delivered, emptyStop,
          nav,
          isTopFrame, frameCapturing, frameStartTime, frameEntryCount,
          seenText, observer, pendingMutations, processingScheduled,
          throttleTimers, resync, recv, iframeFlashCooldowns,
          imageDotsAdded, imageDots, loadListeners, saveRequests,
          signal, channel, throttleDue, notifiedAt,
          hasBody, bodyWaiters, orphanObservers>>

\* The state outside the session controller and the message handlers.
navVars == <<nav>>

\* The content script's variables: isTopFrame .. processingScheduled are its
\* globals (frameCapturing, frameStartTime and frameEntryCount being its
\* isCapturing, startTime and entryCount), observer telling whether the
\* MutationObserver is connected; throttleTimers counts the pending
\* THROTTLE_MS timers; resync is the position of checkAndResumeCapture with
\* its number of queries sent and failed; recv is the message the last step
\* handled; imageDots are the images that carry a dot, loadListeners the
\* images with a pending load listener, saveRequests the saveImage requests
\* per image since the frame's last start.
frameCore == <<isTopFrame, frameCapturing, frameStartTime, frameEntryCount,
               seenText, observer, pendingMutations, processingScheduled>>
imageVars == <<imageDotsAdded, imageDots, loadListeners, saveRequests>>
\* signal: a relay signal on its way up a chain of nested frames (level 0
\* is the top frame): the level of the frame it was posted to, its hop
\* counter and the level of the frame that originated it.
chainVars == <<signal>>
\* channel: for each frame of the bound tab the captureText messages it has
\* sent that the background listener has not handled yet, oldest first,
\* and the number of messages it has sent.
portVars == <<channel>>
\* throttleDue: the times at which the pending THROTTLE_MS timers are due,
\* in the order they were armed; notifiedAt: the time of the most recent
\* change notification.
throttleVars == <<throttleTimers, throttleDue, notifiedAt>>
\* hasBody: document.body exists; bodyWaiters: the bodyWaiter observers of
\* startObserver that are connected; orphanObservers: the connected
\* observers of document.body that the variable observer no longer holds.
bodyVars == <<hasBody, bodyWaiters, orphanObservers>>
frameLocal == <<frameCore, throttleVars, resync, recv, iframeFlashCooldowns,
                imageVars, chainVars, bodyVars>>
frameVars == <<frameLocal, portVars>>
extVars == <<navVars, frameVars>>
backgroundOnly == <<aggVars, pendingStop, pendingAutoStop, closedTabs,
                    histVars, navVars, chainVars, portVars>>
backgroundVars == <<backgroundOnly, bodyVars>>

\* nav is the chain of sendStartMessage calls of one finished navigation;
\* one chain is followed at a time.
NoChain == [phase |-> "idle", tab |-> NoTab, attempt |-> 0, sends |-> 0,
            acked |-> FALSE]

\* ---------------------------------------------------------- frame: inputs
Images == 1..NumImages
Children == 1..NumChildren
NoChild == 0

\* A message, reply or window event a frame handles.
Msg(action, flag, time, count) ==
  [action |-> action, isCapturing |-> flag, startTime |-> time,
   count |-> count]
NoMsg == Msg("none", FALSE, NoTime, 0)

\* The directives of the aggregator (runtime.onMessage).
FrameMessages ==
  {Msg("start", FALSE, 0, 0), Msg("stop", FALSE, NoTime, 0),
   Msg("updateCount", FALSE, NoTime, 1), Msg("autoStopped", FALSE, NoTime, 0)}

\* The replies to a getState query; "undefined" is a reply without a value.
StateReplies ==
  {Msg("undefined", FALSE, NoTime, 0), Msg("state", FALSE, NoTime, 0),
   Msg("state", TRUE, 500, 2)}


FrameIds == {"main", "frame"}

NoSignal == [level |-> -1, depth |-> 0, origin |-> -1]

\* The page script loaded: checkAndResumeCapture() has sent its first query.
InitContentScript(top) ==
  /\ isTopFrame = top
  /\ frameCapturing = FALSE
  /\ frameStartTime = NoTime
  /\ frameEntryCount = 0
  /\ seenText = {}
  /\ observer = FALSE
  /\ pendingMutations = <<>>
  /\ processingScheduled = FALSE
  /\ throttleTimers = 0
  /\ throttleDue = <<>>
  /\ notifiedAt = NoTime
  /\ bodyWaiters = 0
  /\ orphanObservers = 0
  /\ resync = [phase |-> "query", attempt |-> 1, queries |-> 1,
               failures |-> 0]
  /\ recv = NoMsg
  /\ iframeFlashCooldowns = [c \in Children |-> 0]
  /\ imageDotsAdded = {}
  /\ imageDots = {}
  /\ loadListeners = {}
  /\ saveRequests = [i \in Images |-> 0]
  /\ signal = NoSignal
  /\ channel = [f \in FrameIds |-> [queue |-> <<>>, sent |-> 0]]


InitAggregator ==
  /\ isCapturing = FALSE
  /\ captureStartTime = NoTime
  /\ capturedText = <<>>
  /\ seenHashes = {}
  /\ activeTabId = NoTab
  /\ currentCaptureSize = 0
  /\ pendingStop = 0
  /\ pendingAutoStop = 0
  /\ now = 0
  /\ closedTabs = {}
  /\ autoStoppedSent = 0
  /\ stopSent = FALSE
  /\ delivered = FALSE
  /\ emptyStop = FALSE
  /\ nav = NoChain

Init ==
  /\ InitAggregator
  /\ InitContentScript(TRUE)
  /\ hasBody = TRUE
  /\ out = <<>>
  /\ last = Last("init", NoTab, NoEntry, "none")

Tick ==
  /\ now + TickMs <= MaxTime
  /\ now' = now + TickMs
  /\ out' = <<>>
  /\ last' = Last("tick", NoTab, NoEntry, "none")
  /\ UNCHANGED <<aggVars, pendingStop, pendingAutoStop, closedTabs, histVars,
                 extVars>>

\* ------------------------------------------------------- output document
Round(num, den) == (2 * num + den) \div (2 * den)

PadStart3(n) ==
  IF n < 10 THEN <<0, 0, n>>
  ELSE IF n < 100 THEN <<0, n \div 10, n % 10>>
  ELSE IF n < 1000 THEN <<n \div 100, (n \div 10) % 10, n % 10>>
  ELSE <<n>>

\* formatOutput numbering the blocks from 0.
formatOutputZeroBased ==
  [started  |-> captureStartTime,
   ended    |-> now,
   duration |-> Round(now - captureStartTime, 1000),
   entries  |-> Len(capturedText),
   sizeKB10 |-> Round(currentCaptureSize * 10, 1024),
   body     |-> [i \in 1..Len(capturedText) |->
                   [ordinal |-> PadStart3(i - 1),
                    timeOffset |-> Round(capturedText[i].timestamp
                                         - captureStartTime, 1000),
                    frameId |-> capturedText[i].frameId,
                    url     |-> capturedText[i].url,
                    text    |-> capturedText[i].text]]]

\* The document: the header's fields and one block per entry, each with
\* the parts of its first line and its text.
formatOutput ==
  [started  |-> captureStartTime,
   ended    |-> now,
   duration |-> Round(now - captureStartTime, 1000),
   entries  |-> Len(capturedText),
   sizeKB10 |-> Round(currentCaptureSize * 10, 1024),
   body     |-> [i \in 1..Len(capturedText) |->
                   [ordinal |-> PadStart3(i),
                    timeOffset |-> Round(capturedText[i].timestamp
                                         - captureStartTime, 1000),
                    frameId |-> capturedText[i].frameId,
                    url     |-> capturedText[i].url,
                    text    |-> capturedText[i].text]]]

\* A directive sent to a tab (tabs.sendMessage).
Directive(tab, action, arg) == [type |-> action, tab |-> tab, arg |-> arg]

\* A file delivery (downloads.download).
Download(content) == [type |-> "download", tab |-> NoTab, arg |-> content]

\* The calls saveCapture makes.
saveCapture ==
  IF Len(capturedText) > 0 THEN <<Download(formatOutput)>> ELSE <<>>

\* ------------------------------------------------------------ startCapture
\* startCapture without its early return.
startCaptureNoGuard(tabId) ==
  /\ isCapturing' = TRUE
  /\ captureStartTime' = now
  /\ capturedText' = <<>>
  /\ seenHashes' = {}
  /\ currentCaptureSize' = 0
  /\ activeTabId' = tabId
  /\ out' = <<Directive(tabId, "start", now)>>
  /\ autoStoppedSent' = 0
  /\ stopSent' = FALSE
  /\ delivered' = FALSE
  /\ emptyStop' = FALSE

startCapture(tabId) ==
  IF isCapturing
  THEN /\ out' = <<>>
       /\ UNCHANGED <<aggVars, histVars>>
  ELSE /\ isCapturing' = TRUE
       /\ captureStartTime' = now
       /\ capturedText' = <<>>
       /\ seenHashes' = {}
       /\ currentCaptureSize' = 0
       /\ activeTabId' = tabId
       /\ out' = <<Directive(tabId, "start", now)>>
       /\ autoStoppedSent' = 0
       /\ stopSent' = FALSE
       /\ delivered' = FALSE
       /\ emptyStop' = FALSE

\* ------------------------------------------------------------- stopCapture
\* stopCapture after its await (lines 1060-1071); it is the whole rest of
\* stopCapture when no stop directive is sent.
stopCaptureTail ==
  LET saved == IF Len(capturedText) > 0 THEN saveCapture ELSE <<>> IN
  /\ out' = saved
  /\ delivered' = (delivered \/ saved # <<>>)
  /\ capturedText' = <<>>
  /\ seenHashes' = {}
  /\ currentCaptureSize' = 0
  /\ activeTabId' = NoTab

\* stopCapture up to its await (lines 1037-1058).
stopCapture ==
  IF ~isCapturing
  THEN /\ out' = <<>>
       /\ UNCHANGED <<aggVars, pendingStop, histVars>>
  ELSE /\ isCapturing' = FALSE
       /\ emptyStop' = (capturedText = <<>>)
       /\ UNCHANGED <<captureStartTime, autoStoppedSent>>
       /\ IF activeTabId # NoTab
          THEN /\ out' = <<Directive(activeTabId, "stop", 0)>>
               /\ stopSent' = TRUE
               /\ pendingStop' = pendingStop + 1
               /\ UNCHANGED <<capturedText, seenHashes, currentCaptureSize,
                              activeTabId, delivered>>
          ELSE /\ stopCaptureTail
               /\ UNCHANGED <<pendingStop, stopSent>>

\* A call of stopCapture stays within the bound on waiting calls.
CanStop == ~isCapturing \/ activeTabId = NoTab \/ pendingStop < MaxPending

\* StopResume giving up the rest of stopCapture when the delivery failed.
StopResumeAbortOnFailure(ok) ==
  /\ pendingStop > 0
  /\ pendingStop' = pendingStop - 1
  /\ IF ok THEN stopCaptureTail
     ELSE /\ out' = <<>>
          /\ UNCHANGED <<delivered, capturedText, seenHashes,
                         currentCaptureSize, activeTabId>>
  /\ last' = Last("stopResume", NoTab, NoEntry,
                IF ok THEN "answered" ELSE "failed")
  /\ UNCHANGED <<isCapturing, captureStartTime, pendingAutoStop, now,
                 closedTabs, autoStoppedSent, stopSent, emptyStop, extVars>>

\* The stop directive was answered (ok) or its delivery failed: the catch
\* block is empty and stopCapture resumes.
StopResume(ok) ==
  /\ pendingStop > 0
  /\ pendingStop' = pendingStop - 1
  /\ stopCaptureTail
  /\ last' = Last("stopResume", NoTab, NoEntry,
                IF ok THEN "answered" ELSE "failed")
  /\ UNCHANGED <<isCapturing, captureStartTime, pendingAutoStop, now,
                 closedTabs, autoStoppedSent, stopSent, emptyStop, extVars>>

\* --------------------------------------------------------- autoStopCapture
\* The autoStopped directive was answered (ok) or its delivery failed:
\* the catch block is empty, autoStopCapture resumes and calls stopCapture.
AutoStopResume(ok) ==
  /\ pendingAutoStop > 0
  /\ CanStop
  /\ pendingAutoStop' = pendingAutoStop - 1
  /\ stopCapture
  /\ last' = Last("autoStopResume", NoTab, NoEntry,
                IF ok THEN "answered" ELSE "failed")
  /\ UNCHANGED <<now, closedTabs, extVars>>

\* The delivery of a start directive of startCapture or of an updateCount
\* directive of captureText was answered (ok) or failed: the catch handler
\* logs or does nothing, and nothing follows the await.
DirectiveSettled(action, ok) ==
  /\ captureStartTime # NoTime
  /\ out' = <<>>
  /\ last' = Last(action, NoTab, NoEntry, IF ok THEN "answered" ELSE "failed")
  /\ UNCHANGED <<aggVars, pendingStop, pendingAutoStop, now, closedTabs,
                 histVars, extVars>>

\* ---------------------------------------------------------------- handlers
\* The session controller calls startCapture / stopCapture.
StartCall(tabId) ==
  /\ tabId \notin closedTabs
  /\ startCapture(tabId)
  /\ last' = Last("start", tabId, NoEntry,
                IF isCapturing THEN "noop" ELSE "started")
  /\ UNCHANGED <<pendingStop, pendingAutoStop, now, closedTabs, extVars>>

StopCall ==
  /\ CanStop
  /\ stopCapture
  /\ last' = Last("stop", NoTab, NoEntry,
                IF isCapturing THEN "stopped" ELSE "noop")
  /\ UNCHANGED <<pendingAutoStop, now, closedTabs, extVars>>

\* onMessage toggleCapture and the toggle-capture command.
ToggleCapture(tabId) ==
  /\ tabId \notin closedTabs
  /\ CanStop
  /\ IF ~isCapturing
     THEN startCapture(tabId) /\ UNCHANGED pendingStop
     ELSE stopCapture
  /\ last' = Last("toggle", tabId, NoEntry,
                IF isCapturing THEN "stopped" ELSE "started")
  /\ UNCHANGED <<pendingAutoStop, now, closedTabs, extVars>>

\* tabs.onRemoved
TabRemoved(tabId) ==
  /\ tabId \notin closedTabs
  /\ CanStop
  /\ closedTabs' = closedTabs \cup {tabId}
  /\ IF isCapturing /\ tabId = activeTabId
     THEN stopCapture
     ELSE out' = <<>> /\ UNCHANGED <<aggVars, pendingStop, histVars>>
  /\ last' = Last("tabRemoved", tabId, NoEntry,
                IF isCapturing /\ tabId = activeTabId
                THEN "stopped" ELSE "noop")
  /\ UNCHANGED <<pendingAutoStop, now, extVars>>

\* The reason text names the budget in whole megabytes.
AutoStopReason == (MAX_CAPTURE_SIZE \div 1024) \div 1024

\* SubmitOutcome without the check of the sender's tab.
SubmitOutcomeAnyTab(sender, entry) ==
  IF ~isCapturing THEN "notCapturing"
  ELSE IF Hash(entry.text) \in seenHashes THEN "duplicate"
  ELSE IF currentCaptureSize + EntrySize(entry.text) > MAX_CAPTURE_SIZE
       THEN "autoStop"
  ELSE "admitted"

\* What onMessage captureText does with a message; sender is the sender's
\* tab id, NoTab when the message has no sender.tab.
SubmitOutcome(sender, entry) ==
  IF ~isCapturing THEN "notCapturing"
  ELSE IF sender = NoTab THEN "noTab"
  ELSE IF sender # activeTabId THEN "wrongTab"
  ELSE IF Hash(entry.text) \in seenHashes THEN "duplicate"
  ELSE IF currentCaptureSize + EntrySize(entry.text) > MAX_CAPTURE_SIZE
       THEN "autoStop"
  ELSE "admitted"

\* push putting the entry at the head of the list.
pushAtHead(list, entry) == <<entry>> \o list

\* capturedText.push(entry)
push(list, entry) == Append(list, entry)

\* CaptureText pushing the count read before the append.
CaptureTextStaleCount(sender, entry) ==
  /\ sender \notin closedTabs
  /\ LET outcome == SubmitOutcome(sender, entry) IN
     /\ outcome = "autoStop" => pendingAutoStop < MaxPending
     /\ last' = Last("submit", sender, entry, outcome)
     /\ CASE outcome \in {"notCapturing", "noTab", "wrongTab", "duplicate"} ->
               /\ out' = <<>>
               /\ UNCHANGED <<aggVars, pendingStop, pendingAutoStop, histVars>>
          [] outcome = "autoStop" ->
               \* seenHashes.add(hash), then autoStopCapture up to its await
               IF activeTabId # NoTab
               THEN /\ seenHashes' = seenHashes \cup {Hash(entry.text)}
                    /\ out' = <<Directive(activeTabId, "autoStopped",
                                          AutoStopReason)>>
                    /\ pendingAutoStop' = pendingAutoStop + 1
                    /\ autoStoppedSent' = autoStoppedSent + 1
                    /\ UNCHANGED <<isCapturing, captureStartTime, capturedText,
                                   activeTabId, currentCaptureSize, pendingStop,
                                   stopSent, delivered, emptyStop>>
               ELSE stopCapture /\ UNCHANGED pendingAutoStop
          [] outcome = "admitted" ->
               /\ seenHashes' = seenHashes \cup {Hash(entry.text)}
               /\ currentCaptureSize' = currentCaptureSize + EntrySize(entry.text)
               /\ capturedText' = push(capturedText, entry)
               /\ out' = <<Directive(sender, "updateCount",
                                     Len(capturedText))>>
               /\ UNCHANGED <<isCapturing, captureStartTime, activeTabId,
                              pendingStop, pendingAutoStop, histVars>>
  /\ UNCHANGED <<now, closedTabs, navVars, frameLocal>>

\* onMessage captureText
CaptureText(sender, entry) ==
  /\ sender \notin closedTabs
  /\ LET outcome == SubmitOutcome(sender, entry) IN
     /\ outcome = "autoStop" => pendingAutoStop < MaxPending
     /\ last' = Last("submit", sender, entry, outcome)
     /\ CASE outcome \in {"notCapturing", "noTab", "wrongTab", "duplicate"} ->
               /\ out' = <<>>
               /\ UNCHANGED <<aggVars, pendingStop, pendingAutoStop, histVars>>
          [] outcome = "autoStop" ->
               \* seenHashes.add(hash), then autoStopCapture up to its await
               IF activeTabId # NoTab
               THEN /\ seenHashes' = seenHashes \cup {Hash(entry.text)}
                    /\ out' = <<Directive(activeTabId, "autoStopped",
                                          AutoStopReason)>>
                    /\ pendingAutoStop' = pendingAutoStop + 1
                    /\ autoStoppedSent' = autoStoppedSent + 1
                    /\ UNCHANGED <<isCapturing, captureStartTime, capturedText,
                                   activeTabId, currentCaptureSize, pendingStop,
                                   stopSent, delivered, emptyStop>>
               ELSE stopCapture /\ UNCHANGED pendingAutoStop
          [] outcome = "admitted" ->
               /\ seenHashes' = seenHashes \cup {Hash(entry.text)}
               /\ currentCaptureSize' = currentCaptureSize + EntrySize(entry.text)
               /\ capturedText' = push(capturedText, entry)
               /\ out' = <<Directive(sender, "updateCount",
                                     Len(capturedText) + 1)>>
               /\ UNCHANGED <<isCapturing, captureStartTime, activeTabId,
                              pendingStop, pendingAutoStop, histVars>>
  /\ UNCHANGED <<now, closedTabs, navVars, frameLocal>>

\* getStateReply answering every sender with the global recording flag.
getStateReplyGlobal(sender) ==
  [isCapturing |-> isCapturing,
   startTime   |-> captureStartTime,
   entryCount  |-> Len(capturedText)]

\* The reply of onMessage getState; a time is carried as the millisecond
\* value its ISO string denotes, NoTime standing for null.
getStateReply(sender) ==
  [isCapturing |-> IF sender = NoTab THEN isCapturing
                   ELSE isCapturing /\ sender = activeTabId,
   startTime   |-> IF captureStartTime # NoTime THEN captureStartTime
                   ELSE NoTime,
   entryCount  |-> Len(capturedText)]

\* onMessage getState
GetState(sender) ==
  /\ sender \notin closedTabs
  /\ out' = <<[type |-> "state", tab |-> sender, arg |-> getStateReply(sender)]>>
  /\ last' = Last("getState", sender, NoEntry, "none")
  /\ UNCHANGED <<aggVars, pendingStop, pendingAutoStop, now, closedTabs,
                 histVars, extVars>>

Next ==
  \/ Tick
  \/ \E t \in Tabs : StartCall(t)
  \/ StopCall
  \/ \E t \in Tabs : ToggleCapture(t)
  \/ \E t \in Tabs : TabRemoved(t)
  \/ \E snd \in Senders, e \in Entries :
       CaptureText(snd, e) /\ UNCHANGED channel
  \/ \E ok \in BOOLEAN : StopResume(ok)
  \/ \E ok \in BOOLEAN : AutoStopResume(ok)
  \/ \E snd \in Senders : GetState(snd)

Spec == Init /\ [][Next]_vars

\* The aggregator with the settlement of every directive it sends.
NextDelivery ==
  \/ \E t \in Tabs : StartCall(t)
  \/ StopCall
  \/ \E t \in Tabs : TabRemoved(t)
  \/ \E snd \in Senders, e \in Entries :
       CaptureText(snd, e) /\ UNCHANGED channel
  \/ \E ok \in BOOLEAN : StopResume(ok)
  \/ \E ok \in BOOLEAN : AutoStopResume(ok)
  \/ \E a \in {"startSettled", "countSettled"}, ok \in BOOLEAN :
       DirectiveSettled(a, ok)

SpecDelivery == Init /\ [][NextDelivery]_vars

\* ------------------------------------------------- tabs.onUpdated listener
\* sendStartMessage gives up after this many attempts.
MaxStartAttempts == 10

\* tabs.onUpdated: a finished load of the bound tab while capturing arms
\* the timer of the first sendStartMessage call.
TabUpdated(tabId, status) ==
  /\ tabId \notin closedTabs
  /\ out' = <<>>
  /\ IF isCapturing /\ tabId = activeTabId /\ status = "complete"
     THEN /\ nav.phase = "idle"
          /\ nav' = [phase |-> "timer", tab |-> tabId, attempt |-> 1,
                     sends |-> 0, acked |-> FALSE]
          /\ last' = Last("tabUpdated", tabId, NoEntry, "armed")
     ELSE /\ UNCHANGED nav
          /\ last' = Last("tabUpdated", tabId, NoEntry, "noop")
  /\ UNCHANGED <<aggVars, pendingStop, pendingAutoStop, now, closedTabs,
                 histVars, frameVars>>

\* The timer fires: sendStartMessage(attempt) sends the start directive with
\* the start time and entry count read at this moment.
sendStartMessage ==
  /\ nav.phase = "timer"
  /\ out' = <<[type |-> "start", tab |-> nav.tab,
                arg |-> captureStartTime, entryCount |-> Len(capturedText)]>>
  /\ nav' = [nav EXCEPT !.phase = "sent", !.sends = @ + 1]
  /\ last' = Last("sendStart", nav.tab, NoEntry, "none")
  /\ UNCHANGED <<aggVars, pendingStop, pendingAutoStop, now, closedTabs,
                 histVars, frameVars>>

\* The frame answered the directive: the chain ends.
StartAnswered ==
  /\ nav.phase = "sent"
  /\ nav.tab \notin closedTabs
  /\ out' = <<>>
  /\ nav' = [NoChain EXCEPT !.acked = TRUE]
  /\ last' = Last("startAnswered", nav.tab, NoEntry, "none")
  /\ UNCHANGED <<aggVars, pendingStop, pendingAutoStop, now, closedTabs,
                 histVars, frameVars>>

\* StartFailed retrying after the last attempt as well.
StartFailedOneMore ==
  /\ nav.phase = "sent"
  /\ out' = <<>>
  /\ IF nav.attempt <= MaxStartAttempts
     THEN nav' = [nav EXCEPT !.phase = "timer", !.attempt = @ + 1]
     ELSE nav' = NoChain
  /\ last' = Last("startFailed", nav.tab, NoEntry,
                IF nav.attempt <= MaxStartAttempts THEN "retry" ELSE "gaveUp")
  /\ UNCHANGED <<aggVars, pendingStop, pendingAutoStop, now, closedTabs,
                 histVars, frameVars>>

\* The send was rejected: another attempt is scheduled unless this was the
\* last one.
StartFailed ==
  /\ nav.phase = "sent"
  /\ out' = <<>>
  /\ IF nav.attempt < MaxStartAttempts
     THEN nav' = [nav EXCEPT !.phase = "timer", !.attempt = @ + 1]
     ELSE nav' = NoChain
  /\ last' = Last("startFailed", nav.tab, NoEntry,
                IF nav.attempt < MaxStartAttempts THEN "retry" ELSE "gaveUp")
  /\ UNCHANGED <<aggVars, pendingStop, pendingAutoStop, now, closedTabs,
                 histVars, frameVars>>

\* The entries the frames of the navigation model submit.
NavEntries == {e \in Entries : e.text = ShortText}

NextNav ==
  \/ Tick
  \/ \E t \in Tabs : StartCall(t)
  \/ StopCall
  \/ \E ok \in BOOLEAN : StopResume(ok)
  \/ \E t \in Tabs : TabRemoved(t)
  \/ \E snd \in Tabs, e \in NavEntries :
       CaptureText(snd, e) /\ UNCHANGED channel
  \/ \E t \in Tabs, st \in {"loading", "complete"} : TabUpdated(t, st)
  \/ sendStartMessage
  \/ StartAnswered
  \/ StartFailed

\* Timers fire and every send is answered or rejected.
FairNav ==
  /\ WF_vars(sendStartMessage)
  /\ WF_vars(StartAnswered \/ StartFailed)

SpecNav == Init /\ [][NextNav]_vars /\ FairNav

\* ================================================================ the frame
\* The content script of one frame (src/content-script.js, lines 24-810).
\* Besides the digits 0..9 and the letters 10..12, which occur in no
\* pattern of the script, a text is made of the characters of Ch.
Ch == [space |-> 20, newline |-> 21, zwsp |-> 22, lbrace |-> 23,
       rbrace |-> 24, semi |-> 25, colon |-> 26, lbracket |-> 27,
       rbracket |-> 28, t |-> 30, o |-> 31, l |-> 32, n |-> 33, g |-> 34,
       c |-> 35, a |-> 36, p |-> 37, u |-> 38, r |-> 39, e |-> 40]

MIN_TEXT_LENGTH == 10
MAX_TEXT_LENGTH == 100000

\* The text made of the given characters.
RECURSIVE Str(_)
Str(chars) ==
  IF chars = <<>> THEN <<>>
  ELSE Concat(<< <<Head(chars), 1>> >>, Str(Tail(chars)))

\* ' [too long to capture]'
TooLongMarker ==
  Str(<<Ch.space, Ch.lbracket, Ch.t, Ch.o, Ch.o, Ch.space, Ch.l, Ch.o, Ch.n,
        Ch.g, Ch.space, Ch.t, Ch.o, Ch.space, Ch.c, Ch.a, Ch.p, Ch.t, Ch.u,
        Ch.r, Ch.e, Ch.rbracket>>)

IsWhitespace(c) == c \in {Ch.space, Ch.newline}
IsDigit(c) == c \in 0..9
IsSpecial(c) == c \in {Ch.lbrace, Ch.rbrace, Ch.semi, Ch.colon}

\* The i-th character of a text, counted from 1.
RECURSIVE CharAt(_, _)
CharAt(t, i) ==
  IF Head(t)[2] >= i THEN Head(t)[1] ELSE CharAt(Tail(t), i - Head(t)[2])

\* replace(/\s+/g, ' '); inWs: the run before was whitespace.
RECURSIVE CollapseWhitespace(_, _)
CollapseWhitespace(t, inWs) ==
  IF t = <<>> THEN <<>>
  ELSE IF IsWhitespace(Head(t)[1])
       THEN IF inWs THEN CollapseWhitespace(Tail(t), TRUE)
            ELSE << <<Ch.space, 1>> >> \o CollapseWhitespace(Tail(t), TRUE)
       ELSE <<Head(t)>> \o CollapseWhitespace(Tail(t), FALSE)

\* replace(/[\u200B-\u200D\uFEFF]/g, "")
RECURSIVE StripZeroWidth(_)
StripZeroWidth(t) ==
  IF t = <<>> THEN <<>>
  ELSE IF Head(t)[1] = Ch.zwsp THEN StripZeroWidth(Tail(t))
  ELSE Concat(<<Head(t)>>, StripZeroWidth(Tail(t)))

\* trim()
Trim(t) ==
  LET s == IF t # <<>> /\ IsWhitespace(Head(t)[1]) THEN Tail(t) ELSE t
  IN IF s # <<>> /\ IsWhitespace(s[Len(s)][1])
     THEN SubSeq(s, 1, Len(s) - 1) ELSE s

cleanText(text) == Trim(StripZeroWidth(CollapseWhitespace(text, FALSE)))

\* cleanText followed by the truncation of processText.
Truncated(text) ==
  LET cleaned == cleanText(text) IN
  IF TextLength(cleaned) > MAX_TEXT_LENGTH
  THEN Concat(Substring(cleaned, MAX_TEXT_LENGTH), TooLongMarker)
  ELSE cleaned

\* /^\d+$/
AllDigits(t) == t # <<>> /\ \A i \in 1..Len(t) : IsDigit(t[i][1])

\* /^\d{2}:\d{2}$/
IsClock(t) ==
  /\ TextLength(t) = 5
  /\ \A i \in {1, 2, 4, 5} : IsDigit(CharAt(t, i))
  /\ CharAt(t, 3) = Ch.colon

\* NOISE_PATTERNS: over the characters of the model only
\* /^\s*\{[\s\S]*\}\s*$/ can match; every other pattern, and /^ACC\s*\d*/,
\* needs a character that no text of the model contains.
IsNoise(t) ==
  LET s == Trim(CollapseWhitespace(t, FALSE)) IN
  s # <<>> /\ Head(s)[1] = Ch.lbrace /\ s[Len(s)][1] = Ch.rbrace

\* (cleaned.match(/[{};:]/g) || []).length
RECURSIVE SpecialChars(_)
SpecialChars(t) ==
  IF t = <<>> THEN 0
  ELSE (IF IsSpecial(Head(t)[1]) THEN Head(t)[2] ELSE 0) + SpecialChars(Tail(t))

\* cleaned.substring(0, 100) + cleaned.length
LocalHash(cleaned) ==
  Concat(Substring(cleaned, 100), NumberToString(TextLength(cleaned)))

\* ProcessOutcome without the local deduplication.
ProcessOutcomeNoMemory(text, seen) ==
  LET cleaned == Truncated(text) IN
  IF TextLength(cleaned) < MIN_TEXT_LENGTH THEN "tooShort"
  ELSE IF AllDigits(cleaned) \/ IsClock(cleaned) THEN "indicator"
  ELSE IF IsNoise(cleaned) THEN "noise"
  ELSE IF 10 * SpecialChars(cleaned) > TextLength(cleaned) THEN "css"
  ELSE "submitted"

\* What processText does with a text, seen being seenText at the call.
ProcessOutcome(text, seen) ==
  LET cleaned == Truncated(text) IN
  IF TextLength(cleaned) < MIN_TEXT_LENGTH THEN "tooShort"
  ELSE IF AllDigits(cleaned) \/ IsClock(cleaned) THEN "indicator"
  ELSE IF IsNoise(cleaned) THEN "noise"
  ELSE IF 10 * SpecialChars(cleaned) > TextLength(cleaned) THEN "css"
  ELSE IF LocalHash(cleaned) \in seen THEN "duplicate"
  ELSE "submitted"

\* The raw texts the page hands to processText.
ShortRaw == << <<10, 9>> >>
PaddedRaw == << <<Ch.space, 3>>, <<10, 5>>, <<Ch.newline, 1>>, <<Ch.space, 2>>,
               <<Ch.zwsp, 1>>, <<11, 4>>, <<Ch.newline, 2>> >>
SparseRaw == << <<10, 4>>, <<Ch.space, 6>>, <<11, 4>> >>
MaxRaw == << <<10, MAX_TEXT_LENGTH>> >>
OverlongRaw == << <<10, MAX_TEXT_LENGTH + 1>> >>
DigitsRaw == << <<1, 12>> >>
BracesRaw == << <<Ch.lbrace, 1>>, <<10, 10>>, <<Ch.rbrace, 1>> >>
ColonsRaw == << <<10, 8>>, <<Ch.colon, 2>> >>

\* A mutation record: an added text node or element with its text, or a
\* character data change; img is the IMG element added, complete when it is
\* loaded already.
Mutation(source, text, img, complete) ==
  [source |-> source, text |-> text, img |-> img, complete |-> complete]
NoImage == 0

TextMutations ==
  {Mutation("added", PaddedRaw, NoImage, FALSE),
   Mutation("modified", SparseRaw, NoImage, FALSE),
   Mutation("text-node", OverlongRaw, NoImage, FALSE)}

\* The texts of document.body when capture starts ("" for an empty body).
BodyTexts == {<<>>, ShortRaw, MaxRaw, PaddedRaw, DigitsRaw, BracesRaw,
              ColonsRaw}

\* ------------------------------------------------------- frame: operators
getFrameId == IF isTopFrame THEN "main" ELSE "frame"

\* window.location.href
FrameUrl == IF isTopFrame THEN "https://a/" ELSE "https://b/f"

\* Date.now() of the frame.
DateNow == FrameEpoch + now

\* runtime.sendMessage({action: 'captureText', entry}) followed by
\* triggerFlashUpward, the tail of processText.
Submit(text, source) ==
  <<[type |-> "captureText", tab |-> NoTab,
     entry |-> [text |-> Truncated(text), frameId |-> getFrameId,
                url |-> FrameUrl,
                source |-> source, timestamp |-> now]]>>
  \o (IF isTopFrame THEN <<>>
      ELSE <<[type |-> "postFlash", tab |-> NoTab, depth |-> 1]>>)

\* processText applied to the texts of a list of mutations in order; a
\* mutation without text is skipped by its caller.
RECURSIVE ProcessAll(_, _)
ProcessAll(muts, seen) ==
  IF muts = <<>> THEN [seen |-> seen, sent |-> <<>>]
  ELSE LET m == Head(muts)
           oc == IF m.text = <<>> THEN "empty"
                 ELSE ProcessOutcome(m.text, seen)
           seen1 == IF oc = "submitted"
                    THEN seen \cup {LocalHash(Truncated(m.text))} ELSE seen
           rest == ProcessAll(Tail(muts), seen1)
       IN [seen |-> rest.seen,
           sent |-> (IF oc = "submitted" THEN Submit(m.text, m.source)
                     ELSE <<>>) \o rest.sent]

\* The images addDotToImage gives a dot among imgs: shouldAddDot fails for
\* an image that is in imageDotsAdded.
Dotted(imgs, added) == imgs \ added

GetStateQuery == [type |-> "getState", tab |-> NoTab]

InitFrame ==
  /\ InitAggregator
  /\ \E top \in BOOLEAN : InitContentScript(top)
  /\ hasBody = TRUE
  /\ out = <<GetStateQuery>>
  /\ last = Last("load", NoTab, NoEntry, "none")

\* addDotToImage for each of imgs: an image that passes shouldAddDot is
\* recorded in imageDotsAdded and gets a dot.
addDotToImage(imgs) ==
  /\ imageDotsAdded' = imageDotsAdded \cup imgs
  /\ imageDots' = imageDots \cup Dotted(imgs, imageDotsAdded)

\* scanForImages and the image branch of processPendingMutations: a loaded
\* image goes through addDotToImage, another one gets a load listener.
ScanImages(imgs, complete) ==
  /\ addDotToImage(imgs \cap complete)
  /\ loadListeners' = loadListeners \cup (imgs \ complete)

\* frameStartCapture without its early return.
frameStartCaptureNoGuard(startTimeISO, initialCount, body, imgs, complete) ==
  LET initial == ProcessAll(<<Mutation("initial", body, NoImage, FALSE)>>,
                            {})
  IN /\ frameCapturing' = TRUE
     /\ frameStartTime' = IF startTimeISO = NoTime THEN now
                          ELSE startTimeISO
     /\ frameEntryCount' = initialCount
     /\ IF hasBody
        THEN /\ seenText' = initial.seen
             /\ out' = initial.sent
             /\ observer' = TRUE
             /\ orphanObservers' = orphanObservers
                                     + (IF observer THEN 1 ELSE 0)
             /\ UNCHANGED bodyWaiters
        ELSE /\ bodyWaiters < MaxWaiters
             /\ seenText' = {}
             /\ out' = <<>>
             /\ bodyWaiters' = bodyWaiters + 1
             /\ UNCHANGED <<observer, orphanObservers>>
     /\ UNCHANGED hasBody
     /\ saveRequests' = [i \in Images |-> 0]
     /\ IF isTopFrame THEN ScanImages(imgs, complete)
        ELSE UNCHANGED <<imageDotsAdded, imageDots, loadListeners>>

\* startCapture of the frame; body is the text of document.body, imgs the
\* IMG elements of the document and complete the loaded ones. startObserver
\* captures the initial content and connects a new observer when the
\* document has a body and connects a bodyWaiter otherwise.
frameStartCapture(startTimeISO, initialCount, body, imgs, complete) ==
  IF frameCapturing
  THEN /\ out' = <<>>
       /\ UNCHANGED <<frameCapturing, frameStartTime, frameEntryCount,
                      seenText, observer, imageVars, bodyVars>>
  ELSE LET initial == ProcessAll(<<Mutation("initial", body, NoImage, FALSE)>>,
                                 {})
       IN /\ frameCapturing' = TRUE
          /\ frameStartTime' = IF startTimeISO = NoTime THEN now
                               ELSE startTimeISO
          /\ frameEntryCount' = initialCount
          /\ IF hasBody
             THEN /\ seenText' = initial.seen
                  /\ out' = initial.sent
                  /\ observer' = TRUE
                  /\ orphanObservers' = orphanObservers
                                          + (IF observer THEN 1 ELSE 0)
                  /\ UNCHANGED bodyWaiters
             ELSE /\ bodyWaiters < MaxWaiters
                  /\ seenText' = {}
                  /\ out' = <<>>
                  /\ bodyWaiters' = bodyWaiters + 1
                  /\ UNCHANGED <<observer, orphanObservers>>
          /\ UNCHANGED hasBody
          /\ saveRequests' = [i \in Images |-> 0]
          /\ IF isTopFrame THEN ScanImages(imgs, complete)
             ELSE UNCHANGED <<imageDotsAdded, imageDots, loadListeners>>

\* stopCapture of the frame.
frameStopCapture ==
  IF ~frameCapturing
  THEN UNCHANGED <<frameCapturing, seenText, observer, pendingMutations,
                   processingScheduled, imageDotsAdded, imageDots>>
  ELSE /\ frameCapturing' = FALSE
       /\ observer' = FALSE
       /\ pendingMutations' = <<>>
       /\ processingScheduled' = FALSE
       /\ IF isTopFrame
          THEN imageDotsAdded' = {} /\ imageDots' = {}
          ELSE UNCHANGED <<imageDotsAdded, imageDots>>
       /\ seenText' = {}

\* runtime.onMessage listener of the frame.
FrameMessage(msg, body, imgs, complete) ==
  /\ recv' = msg
  /\ last' = Last("frameMessage", NoTab, NoEntry, msg.action)
  /\ CASE msg.action = "start" ->
            /\ frameStartCapture(msg.startTime, msg.count, body, imgs, complete)
            /\ UNCHANGED <<pendingMutations, processingScheduled>>
       [] msg.action \in {"stop", "autoStopped"} ->
            /\ frameStopCapture
            /\ out' = IF msg.action = "autoStopped" /\ isTopFrame
                      THEN <<[type |-> "alert", tab |-> NoTab]>> ELSE <<>>
            /\ UNCHANGED <<frameStartTime, frameEntryCount, loadListeners,
                           saveRequests, bodyVars>>
       [] msg.action = "updateCount" ->
            /\ frameEntryCount' = msg.count
            /\ out' = <<>>
            /\ UNCHANGED <<frameCapturing, frameStartTime, seenText, observer,
                           pendingMutations, processingScheduled, imageVars,
                           bodyVars>>
  /\ UNCHANGED <<isTopFrame, throttleVars, resync, iframeFlashCooldowns,
                 backgroundOnly, now>>

THROTTLE_MS == 250

\* ObserverCallback as a trailing debounce: a notification that finds a
\* pass scheduled puts its timer off by the full window.
ObserverCallbackDebounce(m) ==
  /\ observer \/ orphanObservers > 0
  /\ Len(pendingMutations) < MaxMutations
  /\ pendingMutations' = Append(pendingMutations, m)
  /\ IF processingScheduled
     THEN /\ throttleDue' = [throttleDue EXCEPT ![Len(throttleDue)] =
                                                  now + THROTTLE_MS]
          /\ UNCHANGED <<processingScheduled, throttleTimers>>
     ELSE /\ throttleTimers < MaxTimers
          /\ processingScheduled' = TRUE
          /\ throttleTimers' = throttleTimers + 1
          /\ throttleDue' = Append(throttleDue, now + THROTTLE_MS)
  /\ notifiedAt' = now
  /\ out' = <<>>
  /\ recv' = NoMsg
  /\ last' = Last("observerCallback", NoTab, NoEntry, m.source)
  /\ UNCHANGED <<isTopFrame, frameCapturing, frameStartTime, frameEntryCount,
                 seenText, observer, resync, iframeFlashCooldowns, imageVars,
                 backgroundVars, now>>

\* The MutationObserver callback of startObserverOnBody, run for an
\* observer of document.body that is connected.
ObserverCallback(m) ==
  /\ observer \/ orphanObservers > 0
  /\ Len(pendingMutations) < MaxMutations
  /\ pendingMutations' = Append(pendingMutations, m)
  /\ IF processingScheduled
     THEN UNCHANGED <<processingScheduled, throttleTimers, throttleDue>>
     ELSE /\ throttleTimers < MaxTimers
          /\ processingScheduled' = TRUE
          /\ throttleTimers' = throttleTimers + 1
          /\ throttleDue' = Append(throttleDue, now + THROTTLE_MS)
  /\ notifiedAt' = now
  /\ out' = <<>>
  /\ recv' = NoMsg
  /\ last' = Last("observerCallback", NoTab, NoEntry, m.source)
  /\ UNCHANGED <<isTopFrame, frameCapturing, frameStartTime, frameEntryCount,
                 seenText, observer, resync, iframeFlashCooldowns, imageVars,
                 backgroundVars, now>>

\* The images of the added elements of a list of mutations.
AddedImages(muts) ==
  {muts[i].img : i \in {j \in 1..Len(muts) :
                          muts[j].source = "added" /\ muts[j].img # NoImage}}
LoadedImages(muts) ==
  {muts[i].img : i \in {j \in 1..Len(muts) :
                          /\ muts[j].source = "added" /\ muts[j].img # NoImage
                          /\ muts[j].complete}}

\* A THROTTLE_MS timer fires: processPendingMutations.
ThrottleTimer ==
  /\ throttleTimers > 0
  /\ throttleTimers' = throttleTimers - 1
  /\ throttleDue' = Tail(throttleDue)
  /\ processingScheduled' = FALSE
  /\ pendingMutations' = <<>>
  /\ LET done == ProcessAll(pendingMutations, seenText) IN
     /\ seenText' = done.seen
     /\ out' = done.sent
  /\ IF isTopFrame /\ frameCapturing
     THEN ScanImages(AddedImages(pendingMutations),
                     LoadedImages(pendingMutations))
     ELSE UNCHANGED <<imageDotsAdded, imageDots, loadListeners>>
  /\ recv' = NoMsg
  /\ last' = Last("throttleTimer", NoTab, NoEntry,
                IF pendingMutations = <<>> THEN "empty" ELSE "processed")
  /\ UNCHANGED <<isTopFrame, frameCapturing, frameStartTime, frameEntryCount,
                 observer, resync, iframeFlashCooldowns, saveRequests,
                 notifiedAt, backgroundVars, now>>

\* --------------------------------------------------- checkAndResumeCapture
MaxResyncAttempts == 3

\* The getState query was answered.
ResyncReply(state, body, imgs, complete) ==
  /\ resync.phase = "query"
  /\ resync' = [resync EXCEPT !.phase = "done"]
  /\ recv' = state
  /\ IF state.action = "state" /\ state.isCapturing /\ ~frameCapturing
     THEN frameStartCapture(state.startTime, state.count, body, imgs, complete)
     ELSE /\ out' = <<>>
          /\ UNCHANGED <<frameCapturing, frameStartTime, frameEntryCount,
                         seenText, observer, imageVars, bodyVars>>
  /\ last' = Last("resyncReply", NoTab, NoEntry,
                IF frameCapturing THEN "capturing" ELSE "idle")
  /\ UNCHANGED <<isTopFrame, pendingMutations, processingScheduled,
                 throttleVars, iframeFlashCooldowns, backgroundOnly, now>>

\* ResyncFailed retrying after the last attempt as well.
ResyncFailedOneMore ==
  /\ resync.phase = "query"
  /\ resync' = [resync EXCEPT
                  !.phase = IF resync.attempt <= MaxResyncAttempts
                            THEN "timer" ELSE "done",
                  !.failures = @ + 1]
  /\ out' = <<>>
  /\ recv' = NoMsg
  /\ last' = Last("resyncFailed", NoTab, NoEntry, "none")
  /\ UNCHANGED <<frameCore, throttleVars, iframeFlashCooldowns, imageVars,
                 backgroundVars, now>>

\* The getState query was rejected: a retry is scheduled unless this was
\* the last attempt.
ResyncFailed ==
  /\ resync.phase = "query"
  /\ resync' = [resync EXCEPT
                  !.phase = IF resync.attempt < MaxResyncAttempts
                            THEN "timer" ELSE "done",
                  !.failures = @ + 1]
  /\ out' = <<>>
  /\ recv' = NoMsg
  /\ last' = Last("resyncFailed", NoTab, NoEntry, "none")
  /\ UNCHANGED <<frameCore, throttleVars, iframeFlashCooldowns, imageVars,
                 backgroundVars, now>>

\* The retry timer fires: checkAndResumeCapture(attempt + 1).
ResyncTimer ==
  /\ resync.phase = "timer"
  /\ IF frameCapturing
     THEN /\ resync' = [resync EXCEPT !.phase = "done"]
          /\ out' = <<>>
     ELSE /\ resync' = [resync EXCEPT !.phase = "query", !.attempt = @ + 1,
                                      !.queries = @ + 1]
          /\ out' = <<GetStateQuery>>
  /\ recv' = NoMsg
  /\ last' = Last("resyncTimer", NoTab, NoEntry,
                IF frameCapturing THEN "capturing" ELSE "query")
  /\ UNCHANGED <<frameCore, throttleVars, iframeFlashCooldowns, imageVars,
                 backgroundVars, now>>

NextFrame ==
  \/ \E m \in FrameMessages, b \in BodyTexts : FrameMessage(m, b, {}, {})
  \/ \E m \in TextMutations : ObserverCallback(m)
  \/ ThrottleTimer
  \/ \E r \in StateReplies, b \in BodyTexts : ResyncReply(r, b, {}, {})
  \/ ResyncFailed
  \/ ResyncTimer

\* Every query is answered or rejected and every retry timer fires.
FairFrame ==
  /\ WF_vars(ResyncFailed \/ \E r \in StateReplies, b \in BodyTexts :
                                ResyncReply(r, b, {}, {}))
  /\ WF_vars(ResyncTimer)

SpecFrame == InitFrame /\ [][NextFrame]_vars /\ FairFrame

\* ------------------------------------------------------------- flash relay
MAX_IFRAME_DEPTH == 10
FLASH_COOLDOWN == 500

\* handleChildFlashMessage without its depth check.
handleChildFlashMessageNoLimit(source, depth) ==
  LET flash == /\ source \in Children
               /\ DateNow - iframeFlashCooldowns[source] >= FLASH_COOLDOWN
  IN /\ iframeFlashCooldowns' =
          IF flash THEN [iframeFlashCooldowns EXCEPT ![source] = DateNow]
          ELSE iframeFlashCooldowns
     /\ out' = (IF flash
                THEN <<[type |-> "flash", tab |-> NoTab, child |-> source]>>
                ELSE <<>>)
               \o (IF isTopFrame THEN <<>>
                   ELSE <<[type |-> "postFlash", tab |-> NoTab,
                           depth |-> depth + 1]>>)

\* handleChildFlashMessage, called while capturing: flashIframeBorder on
\* the iframe of the source window, if there is one and its cooldown is
\* over, then the relay to the parent.
handleChildFlashMessage(source, depth) ==
  IF depth > MAX_IFRAME_DEPTH
  THEN out' = <<>> /\ UNCHANGED iframeFlashCooldowns
  ELSE LET flash == /\ source \in Children
                    /\ DateNow - iframeFlashCooldowns[source] >= FLASH_COOLDOWN
       IN /\ iframeFlashCooldowns' =
               IF flash THEN [iframeFlashCooldowns EXCEPT ![source] = DateNow]
               ELSE iframeFlashCooldowns
          /\ out' = (IF flash
                     THEN <<[type |-> "flash", tab |-> NoTab,
                             child |-> source]>>
                     ELSE <<>>)
                    \o (IF isTopFrame THEN <<>>
                        ELSE <<[type |-> "postFlash", tab |-> NoTab,
                                depth |-> depth + 1]>>)

\* The window 'message' listener for an ACC_FLASH_IFRAME event; depth 0
\* stands for an event without a depth.
FlashMessage(source, depth) ==
  /\ recv' = Msg("flash", FALSE, NoTime, depth)
  /\ IF frameCapturing
     THEN handleChildFlashMessage(source, IF depth = 0 THEN 1 ELSE depth)
     ELSE out' = <<>> /\ UNCHANGED iframeFlashCooldowns
  /\ last' = Last("flashMessage", source, NoEntry,
                IF frameCapturing THEN "handled" ELSE "ignored")
  /\ UNCHANGED <<frameCore, throttleVars, resync, imageVars, backgroundVars,
                 now>>

RelayMessages == {m \in FrameMessages : m.action \in {"start", "stop"}}

NextRelay ==
  \/ Tick
  \/ \E m \in RelayMessages : FrameMessage(m, <<>>, {}, {})
  \/ \E src \in Children \cup {NoChild}, d \in 0..MaxDepthIn :
       FlashMessage(src, d)

SpecRelay == InitFrame /\ [][NextRelay]_vars

\* --------------------------------------------------- throttle with a clock
\* Time passes in the frame.
FrameTick ==
  /\ now + ThrottleTick <= MaxClock
  /\ now' = now + ThrottleTick
  /\ out' = <<>>
  /\ recv' = NoMsg
  /\ last' = Last("frameTick", NoTab, NoEntry, "none")
  /\ UNCHANGED <<frameCore, throttleVars, resync, iframeFlashCooldowns,
                 imageVars, backgroundVars>>

\* setTimeout(processPendingMutations, THROTTLE_MS): the oldest timer fires
\* once it is due.
ThrottleTimeout ==
  /\ throttleDue # <<>>
  /\ now >= Head(throttleDue)
  /\ ThrottleTimer

NextThrottle ==
  \/ FrameTick
  \/ \E m \in RelayMessages : FrameMessage(m, <<>>, {}, {})
  \/ \E m \in TextMutations : ObserverCallback(m)
  \/ ThrottleTimeout

SpecThrottle == InitFrame /\ [][NextThrottle]_vars

\* ------------------------------------------------- creation of the body
RECURSIVE Copies(_, _)
Copies(n, m) == IF n = 0 THEN <<>> ELSE <<m>> \o Copies(n - 1, m)

\* document.body is created: every connected bodyWaiter disconnects, runs
\* captureInitialContent on the body text and startObserverOnBody, which
\* stores a new connected observer in the variable observer.
BodyCreated(body) ==
  /\ ~hasBody
  /\ hasBody' = TRUE
  /\ bodyWaiters' = 0
  /\ LET initial == ProcessAll(Copies(bodyWaiters,
                                      Mutation("initial", body, NoImage,
                                               FALSE)),
                               seenText)
     IN /\ seenText' = initial.seen
        /\ out' = initial.sent
  /\ observer' = (observer \/ bodyWaiters > 0)
  /\ orphanObservers' = orphanObservers
                          + (IF bodyWaiters > 0
                             THEN bodyWaiters - 1
                                  + (IF observer THEN 1 ELSE 0)
                             ELSE 0)
  /\ recv' = NoMsg
  /\ last' = Last("bodyCreated", NoTab, NoEntry,
                IF bodyWaiters > 0 THEN "waited" ELSE "none")
  /\ UNCHANGED <<isTopFrame, frameCapturing, frameStartTime, frameEntryCount,
                 pendingMutations, processingScheduled, throttleVars, resync,
                 iframeFlashCooldowns, imageVars, backgroundOnly, now>>

\* The content script is loaded before or after the document has a body.
InitBody ==
  /\ InitAggregator
  /\ \E top \in BOOLEAN : InitContentScript(top)
  /\ hasBody \in BOOLEAN
  /\ out = <<GetStateQuery>>
  /\ last = Last("load", NoTab, NoEntry, "none")

BodyMessages == {m \in FrameMessages : m.action # "updateCount"}

NextBody ==
  \/ \E m \in BodyMessages, b \in {<<>>, PaddedRaw, DigitsRaw} :
       FrameMessage(m, b, {}, {})
  \/ \E b \in {<<>>, PaddedRaw, DigitsRaw} : BodyCreated(b)
  \/ \E m \in TextMutations : ObserverCallback(m)
  \/ ThrottleTimer

SpecBody == InitBody /\ [][NextBody]_vars

\* ------------------------------------------------- chain of nested frames
\* The frame at the given level has submitted an entry: triggerFlashUpward.
ChainSubmit(level) ==
  /\ signal = NoSignal
  /\ signal' = IF level = 0 THEN NoSignal
               ELSE [level |-> level - 1, depth |-> 1, origin |-> level]
  /\ out' = <<>>
  /\ last' = Last("chainSubmit", level, NoEntry,
                IF level = 0 THEN "top" ELSE "posted")
  /\ UNCHANGED <<aggVars, pendingStop, pendingAutoStop, closedTabs, histVars,
                 navVars, frameCore, throttleVars, resync, recv,
                 iframeFlashCooldowns, imageVars, portVars, bodyVars,
                 now>>

\* ChainHop forwarding the hop counter as it came.
ChainHopNoIncrement(watching) ==
  /\ signal # NoSignal
  /\ LET depth == IF signal.depth = 0 THEN 1 ELSE signal.depth
         accepted == watching /\ depth <= MAX_IFRAME_DEPTH
     IN /\ signal' = IF accepted /\ signal.level # 0
                     THEN [signal EXCEPT !.level = @ - 1, !.depth = depth]
                     ELSE NoSignal
        /\ out' = IF accepted
                  THEN <<[type |-> "flash", tab |-> NoTab, child |-> 1]>>
                  ELSE <<>>
        /\ last' = Last("chainHop", signal.level, NoEntry,
                      IF ~accepted THEN "dropped"
                      ELSE IF signal.level = 0 THEN "flashed" ELSE "forwarded")
  /\ UNCHANGED <<aggVars, pendingStop, pendingAutoStop, closedTabs, histVars,
                 navVars, frameCore, throttleVars, resync, recv,
                 iframeFlashCooldowns, imageVars, portVars, bodyVars,
                 now>>

\* The frame the signal was posted to handles it (window message listener,
\* handleChildFlashMessage); watching tells whether that frame captures.
ChainHop(watching) ==
  /\ signal # NoSignal
  /\ LET depth == IF signal.depth = 0 THEN 1 ELSE signal.depth
         accepted == watching /\ depth <= MAX_IFRAME_DEPTH
     IN /\ signal' = IF accepted /\ signal.level # 0
                     THEN [signal EXCEPT !.level = @ - 1, !.depth = depth + 1]
                     ELSE NoSignal
        /\ out' = IF accepted
                  THEN <<[type |-> "flash", tab |-> NoTab, child |-> 1]>>
                  ELSE <<>>
        /\ last' = Last("chainHop", signal.level, NoEntry,
                      IF ~accepted THEN "dropped"
                      ELSE IF signal.level = 0 THEN "flashed" ELSE "forwarded")
  /\ UNCHANGED <<aggVars, pendingStop, pendingAutoStop, closedTabs, histVars,
                 navVars, frameCore, throttleVars, resync, recv,
                 iframeFlashCooldowns, imageVars, portVars, bodyVars,
                 now>>

NextChain ==
  \/ \E level \in 0..ChainDepth : ChainSubmit(level)
  \/ \E watching \in BOOLEAN : ChainHop(watching)

\* Every posted window message is delivered.
FairChain == WF_vars(\E watching \in BOOLEAN : ChainHop(watching))

SpecChain == Init /\ [][NextChain]_vars /\ FairChain

\* ------------------------------------------- frames to aggregator channel
\* The tab the frames of the channel live in.
FrameTab == 1

\* The text of the k-th entry frame f submits; the texts differ in their
\* letter or length and so in fingerprint.
OrderText(f, k) ==
  << <<IF f = "main" THEN 10 ELSE 11, MIN_TEXT_LENGTH + k>> >>

\* The tail of processText in frame f: runtime.sendMessage of the next
\* entry of the frame.
OrderSubmit(f) ==
  /\ channel[f].sent < MaxSubmits
  /\ LET entry == [text |-> OrderText(f, channel[f].sent + 1), frameId |-> f,
                   url |-> IF f = "main" THEN "https://a/" ELSE "https://b/f",
                   timestamp |-> now]
     IN /\ channel' = [channel EXCEPT ![f].queue = Append(@, entry),
                                      ![f].sent = @ + 1]
        /\ last' = Last("orderSubmit", FrameTab, entry, f)
  /\ out' = <<>>
  /\ UNCHANGED <<aggVars, pendingStop, pendingAutoStop, closedTabs, histVars,
                 navVars, frameLocal, now>>

\* The background listener handles the oldest message of frame f: the
\* messages of one frame are dispatched in the order they were sent.
OrderDeliver(f) ==
  /\ channel[f].queue # <<>>
  /\ CaptureText(FrameTab, Head(channel[f].queue))
  /\ channel' = [channel EXCEPT ![f].queue = Tail(@)]

NextOrder ==
  \/ Tick
  \/ \E t \in Tabs : StartCall(t)
  \/ StopCall
  \/ \E ok \in BOOLEAN : StopResume(ok)
  \/ \E f \in FrameIds : OrderSubmit(f)
  \/ \E f \in FrameIds : OrderDeliver(f)

SpecOrder == Init /\ [][NextOrder]_vars

\* ------------------------------------------------------------- image dots
\* Every image of the model passes shouldAddDot's checks of source,
\* extension and size, and all have the same source URL.
ImageSrc(i) == "lecture.png"

\* A load listener registered by scanForImages or processPendingMutations
\* runs: addDotToImage.
ImageLoad(i) ==
  /\ i \in loadListeners
  /\ addDotToImage({i})
  /\ loadListeners' = loadListeners \ {i}
  /\ out' = <<>>
  /\ recv' = NoMsg
  /\ last' = Last("imageLoad", i, NoEntry, "none")
  /\ UNCHANGED <<frameCore, throttleVars, resync, iframeFlashCooldowns,
                 saveRequests, backgroundVars, now>>

\* The click handler of an image's dot: one saveImage request per click.
ClickDot(i) ==
  /\ i \in imageDots
  /\ saveRequests[i] < MaxClicks
  /\ saveRequests' = [saveRequests EXCEPT ![i] = @ + 1]
  /\ out' = <<[type |-> "saveImage", tab |-> NoTab, url |-> ImageSrc(i)]>>
  /\ recv' = NoMsg
  /\ last' = Last("clickDot", i, NoEntry, "none")
  /\ UNCHANGED <<frameCore, throttleVars, resync, iframeFlashCooldowns,
                 imageDotsAdded, imageDots, loadListeners, backgroundVars,
                 now>>

ImageMutations ==
  {Mutation("added", <<>>, i, c) : i \in Images, c \in BOOLEAN}

NextImages ==
  \/ \E m \in RelayMessages, imgs \in SUBSET Images :
       \E complete \in SUBSET imgs : FrameMessage(m, <<>>, imgs, complete)
  \/ \E m \in ImageMutations : ObserverCallback(m)
  \/ ThrottleTimer
  \/ \E i \in Images : ImageLoad(i)
  \/ \E i \in Images : ClickDot(i)

SpecImages == InitFrame /\ [][NextImages]_vars
\* ------------------------------------------------------------- properties
\* The fingerprint as the data model states it: the first 100 characters
\* of the text, and the text's length.
Fingerprint(text) == <<Substring(text, 100), TextLength(text)>>

BudgetBytes == 10 * 1024 * 1024

IsExtension(a, b) == Len(b) >= Len(a) /\ SubSeq(b, 1, Len(a)) = a

Calls(o, type) == SelectSeq(o, LAMBDA c : c.type = type)

\* What a document shows of its entries, and what it is to show of a list.
EntriesOf(doc) ==
  [i \in 1..Len(doc.body) |->
     [text |-> doc.body[i].text, frameId |-> doc.body[i].frameId,
      url |-> doc.body[i].url]]
Listed(entries) ==
  [i \in 1..Len(entries) |->
     [text |-> entries[i].text, frameId |-> entries[i].frameId,
      url |-> entries[i].url]]

Accepts(tab) == isCapturing /\ tab # NoTab /\ tab = activeTabId

\* C1: no two entries of the entry list have the same fingerprint, and a
\* submit whose fingerprint is already in the dedupe index leaves the entry
\* list unchanged, whichever frame sent it.
C1_UniqueFingerprints ==
  /\ [](\A i, j \in 1..Len(capturedText) :
          i # j => Fingerprint(capturedText[i].text)
                     # Fingerprint(capturedText[j].text))
  /\ [][(last'.op = "submit" /\ Hash(last'.entry.text) \in seenHashes)
          => capturedText' = capturedText]_vars

\* C1 witness: an entry of the main frame is in the list and a submit of
\* another frame with a different text of the same fingerprint was dropped.
C1_Witness ==
  /\ last.op = "submit" /\ last.outcome = "duplicate"
  /\ \E i \in 1..Len(capturedText) :
       /\ capturedText[i].frameId # last.entry.frameId
       /\ capturedText[i].text # last.entry.text
       /\ Fingerprint(capturedText[i].text) = Fingerprint(last.entry.text)

\* C2: cumulativeSize never exceeds the budget, and a submit of a
\* new-fingerprint entry whose cost (2 x length) would take cumulativeSize
\* over the budget is not appended and triggers auto-stop.
C2_BudgetEnforced ==
  /\ [](currentCaptureSize <= BudgetBytes)
  /\ [][(/\ last'.op = "submit"
         /\ Accepts(last'.tab)
         /\ Hash(last'.entry.text) \notin seenHashes
         /\ currentCaptureSize + 2 * TextLength(last'.entry.text) > BudgetBytes)
          => /\ capturedText' = capturedText
             /\ currentCaptureSize' = currentCaptureSize
             /\ Len(Calls(out', "autoStopped")) = 1
             /\ pendingAutoStop' = pendingAutoStop + 1]_vars

\* C2 witness: the session stands exactly at the budget and a submit has
\* just triggered auto-stop.
C2_Witness ==
  /\ last.op = "submit" /\ last.outcome = "autoStop"
  /\ currentCaptureSize = BudgetBytes
  /\ pendingAutoStop > 0

\* C3: the entry list of a session that admitted an entry is given up only
\* in a step that invokes the file delivery exactly once with exactly that
\* list, and every file delivery carries the whole list and clears it (so
\* it is delivered once), for every interleaving of start, stop and submit.
C3_DeliveredExactlyOnce ==
  [][/\ (capturedText # <<>> /\ ~IsExtension(capturedText, capturedText'))
          => /\ Len(Calls(out', "download")) = 1
             /\ EntriesOf(Calls(out', "download")[1].arg) = Listed(capturedText)
     /\ Calls(out', "download") # <<>>
          => /\ Len(Calls(out', "download")) = 1
             /\ EntriesOf(Calls(out', "download")[1].arg) = Listed(capturedText)
             /\ capturedText' = <<>>]_vars

\* C4: a session that was stopped while its entry list was empty has no
\* file delivery.
C4_NoDeliveryWhenEmpty == ~(emptyStop /\ delivered)

\* C5: a submit while Stopped, from a tab other than the bound one, or
\* with no tab, leaves the entry list, the dedupe index and cumulativeSize
\* unchanged and pushes no count update.
C5_SubmitGuard ==
  [][(last'.op = "submit" /\ ~Accepts(last'.tab))
       => /\ capturedText' = capturedText
          /\ seenHashes' = seenHashes
          /\ currentCaptureSize' = currentCaptureSize
          /\ out' = <<>>]_vars

\* C5 witness: while Recording, a submit from a tab that is not the bound
\* one has been handled.
C5_Witness ==
  /\ last.op = "submit" /\ last.outcome = "wrongTab"
  /\ isCapturing /\ activeTabId # NoTab /\ last.tab # activeTabId
  /\ capturedText # <<>>

\* C6: a start call while Recording leaves the start time, the entry
\* list, the dedupe index, cumulativeSize and activeTabId unchanged, also
\* for another tab, and sends nothing.
C6_StartWhileRecording ==
  [][(last'.op = "start" /\ isCapturing)
       => /\ UNCHANGED <<isCapturing, captureStartTime, capturedText,
                         seenHashes, currentCaptureSize, activeTabId>>
          /\ out' = <<>>]_vars

\* C6 witness: a start call for another tab was ignored by a session that
\* has entries and began at an earlier time.
C6_Witness ==
  /\ last.op = "start" /\ last.outcome = "noop"
  /\ isCapturing /\ activeTabId # NoTab /\ last.tab # activeTabId
  /\ capturedText # <<>>
  /\ captureStartTime # now

\* A step in which a stop is triggered while Recording: a stop call, a
\* toggle, the closure of the bound tab, or a submit that trips the budget.
StopTriggered ==
  /\ isCapturing
  /\ \/ last'.op \in {"stop", "toggle"}
     \/ last'.op = "tabRemoved" /\ last'.tab = activeTabId
     \/ last'.op = "submit" /\ last'.outcome = "autoStop"

\* C7: every stop moves the aggregator to Stopped in the step in which it
\* is triggered, and a stop call while Stopped changes nothing.
C7_StopImmediate ==
  [][/\ StopTriggered => ~isCapturing'
     /\ (last'.op = "stop" /\ ~isCapturing)
          => UNCHANGED <<aggVars, pendingStop>> /\ out' = <<>>]_vars

\* C8: once auto-stop has been triggered for a session, no entry is
\* appended to that session's entry list.
C8_NoAppendAfterAutoStop ==
  [][autoStoppedSent > 0 => Len(capturedText') <= Len(capturedText)]_vars

\* C9: for one session the autoStopped directive is sent at most once.
C9_OneAutoStopped == autoStoppedSent <= 1

\* C10: on auto-stop the autoStopped directive is sent first, then the
\* stop directive, then the session is delivered and reset in one step;
\* no file delivery precedes the autoStopped directive.
C10_AutoStopOrder ==
  [][/\ Calls(out', "autoStopped") # <<>> => ~stopSent /\ ~delivered
     /\ (Calls(out', "download") # <<>> /\ autoStoppedSent > 0)
          => /\ stopSent
             /\ capturedText' = <<>> /\ seenHashes' = {}
             /\ currentCaptureSize' = 0 /\ activeTabId' = NoTab]_vars
\* The reply of the state query made in the last step.
StateReply(o) == Calls(o, "state")[1].arg

\* C11: when a stop has completed, the entry list and the dedupe index are
\* empty, cumulativeSize is 0, no tab is bound and no start time is kept,
\* and a later state query reports no start time and no entries.
C11_ResetAfterStop ==
  [][/\ last'.op = "stopResume"
          => /\ capturedText' = <<>> /\ seenHashes' = {}
             /\ currentCaptureSize' = 0 /\ activeTabId' = NoTab
             /\ captureStartTime' = NoTime
     /\ (last'.op = "getState" /\ ~isCapturing /\ pendingStop = 0)
          => /\ StateReply(out').startTime = NoTime
             /\ StateReply(out').entryCount = 0]_vars

\* C12: cumulativeSize does not decrease in a step taken while Recording,
\* and it is 0 in every Stopped state.
C12_SizeMonotonic ==
  /\ [](~isCapturing => currentCaptureSize = 0)
  /\ [][(isCapturing /\ isCapturing')
          => currentCaptureSize' >= currentCaptureSize]_vars

\* C13: a submit that appends an entry sends exactly one updateCount
\* directive, to the sender's tab, with the length of the entry list after
\* the append; a submit that appends nothing sends none.
C13_UpdateCount ==
  [][last'.op = "submit"
       => IF capturedText' # capturedText
          THEN /\ capturedText' = Append(capturedText, last'.entry)
               /\ out' = <<[type |-> "updateCount", tab |-> last'.tab,
                            arg |-> Len(capturedText')]>>
          ELSE Calls(out', "updateCount") = <<>>]_vars

\* C13 witness: the first entry of a session was admitted and the count 1
\* was pushed to the tab that sent it.
C13_Witness ==
  /\ last.op = "submit" /\ last.outcome = "admitted"
  /\ Len(capturedText) = 1
  /\ out = <<[type |-> "updateCount", tab |-> activeTabId, arg |-> 1]>>

\* C14: a state query of a tab reports isCapturing exactly when the
\* aggregator is Recording and that tab is the bound one, a query with no
\* tab reports the recording flag, and both report the entry list's length.
C14_StateQuery ==
  [][last'.op = "getState"
       => /\ StateReply(out').entryCount = Len(capturedText)
          /\ StateReply(out').isCapturing
               = IF last'.tab = NoTab THEN isCapturing
                 ELSE isCapturing /\ activeTabId = last'.tab]_vars

\* C14 witness: while Recording with entries, a tab that is not the bound
\* one asked for the state and was told that it is not capturing.
C14_Witness ==
  /\ last.op = "getState" /\ last.tab # NoTab
  /\ isCapturing /\ activeTabId # NoTab /\ last.tab # activeTabId
  /\ capturedText # <<>>
  /\ ~StateReply(out).isCapturing
  /\ StateReply(out).entryCount = Len(capturedText)

\* C17: the closure of the bound tab stops the session in that step and
\* sends no stop directive to that tab; the closure of another tab changes
\* nothing.
C17_TabClosed ==
  [][last'.op = "tabRemoved"
       => IF isCapturing /\ last'.tab = activeTabId
          THEN ~isCapturing' /\ Calls(out', "stop") = <<>>
          ELSE UNCHANGED <<aggVars, pendingStop>> /\ out' = <<>>]_vars
\* C16: for one navigation the start directive is sent at most 10 times
\* and never after a delivery succeeded, every such directive carries the
\* start time and entry count the aggregator holds when it is sent, and
\* every retry chain ends.
C16_StartRetries ==
  /\ [](nav.sends <= 10)
  /\ [][nav'.sends > nav.sends
          => /\ ~nav.acked
             /\ Len(out') = 1
             /\ out'[1].type = "start" /\ out'[1].tab = nav.tab
             /\ out'[1].arg = captureStartTime
             /\ out'[1].entryCount = Len(capturedText)]_vars
  /\ (nav.phase # "idle") ~> (nav.phase = "idle")

\* C16 witness: the tenth start directive of one navigation was just sent,
\* with one entry captured.
C16_Witness ==
  /\ last.op = "sendStart" /\ isCapturing
  /\ nav.sends = 10 /\ nav.tab = activeTabId
  /\ Calls(out, "start")[1].entryCount = 1
\* C15: a frame sends at most 3 state queries on load, each further one
\* only after all earlier ones failed; a reply starts the frame's capture,
\* with the reported start time and entry count, exactly when it reports an
\* active session and the frame is not capturing yet; and the retry
\* sequence comes to an end.
C15_Resync ==
  /\ [](resync.queries <= 3)
  /\ [][resync'.queries > resync.queries
          => resync.failures = resync.queries]_vars
  /\ [][last'.op = "resyncReply"
          => /\ (frameCapturing' /\ ~frameCapturing)
                  <=> (/\ recv'.action = "state" /\ recv'.isCapturing
                       /\ ~frameCapturing)
             /\ (frameCapturing' /\ ~frameCapturing)
                  => /\ frameStartTime' = recv'.startTime
                     /\ frameEntryCount' = recv'.count
                     /\ observer']_vars
  /\ <>(resync.phase = "done")

\* C15 witness: the third query was answered with an active session and
\* the frame took over its start time and entry count.
C15_Witness ==
  /\ last.op = "resyncReply" /\ last.outcome = "idle"
  /\ resync.queries = 3 /\ resync.failures = 2 /\ resync.phase = "done"
  /\ frameCapturing /\ observer
  /\ frameStartTime = 500 /\ frameEntryCount = 2

\* C18: a relay signal with a hop counter above 10 makes the frame neither
\* flash the child frame nor forward the signal.
C18_RelayDepthBound ==
  [][(last'.op = "flashMessage" /\ recv'.count > 10)
       => out' = <<>> /\ UNCHANGED iframeFlashCooldowns]_vars

\* C18 witness: a capturing inner frame received a signal with hop counter
\* 11 from a child whose cooldown is over, and did nothing.
C18_Witness ==
  /\ last.op = "flashMessage" /\ recv.count = 11
  /\ frameCapturing /\ ~isTopFrame
  /\ last.tab \in Children
  /\ DateNow - iframeFlashCooldowns[last.tab] >= FLASH_COOLDOWN
  /\ out = <<>>

\* C19: the text of every entry a frame submits has at least 10 and at
\* most 100,000 characters.
C19_TextLengthBounds ==
  \A i \in 1..Len(out) :
    out[i].type = "captureText"
      => /\ TextLength(out[i].entry.text) >= 10
         /\ TextLength(out[i].entry.text) <= 100000

\* C20: since the frame's last start no image element has had more than
\* one save request.
C20_OneSavePerImage ==
  \A i \in Images : saveRequests[i] <= 1
\* C21: the document of a file delivery has one block per entry of the
\* list, in list order, the k-th block with ordinal k padded with zeros to
\* 3 digits and with the k-th entry's frameId, url and text; the header's
\* entry count is the length of the list.
C21_DocumentBlocks ==
  [][Calls(out', "download") # <<>>
       => LET doc == Calls(out', "download")[1].arg IN
          /\ doc.entries = Len(capturedText)
          /\ Len(doc.body) = Len(capturedText)
          /\ \A k \in 1..Len(capturedText) :
               /\ doc.body[k].ordinal = <<0, 0, k>>
               /\ doc.body[k].frameId = capturedText[k].frameId
               /\ doc.body[k].url = capturedText[k].url
               /\ doc.body[k].text = capturedText[k].text]_vars

\* C21 witness: a document of two entries from two frames was delivered.
C21_Witness ==
  /\ Calls(out, "download") # <<>>
  /\ Len(Calls(out, "download")[1].arg.body) = 2
  /\ Calls(out, "download")[1].arg.body[2].ordinal = <<0, 0, 2>>
  /\ Calls(out, "download")[1].arg.body[1].frameId
       # Calls(out, "download")[1].arg.body[2].frameId
\* C22: a start directive makes an idle frame watch and changes nothing in
\* a watching frame; a stop or autoStopped directive makes a watching frame
\* idle, and a stop directive changes nothing in an idle frame.
C22_FrameStateMachine ==
  [][last'.op = "frameMessage"
       => /\ recv'.action = "start"
               => /\ frameCapturing'
                  /\ frameCapturing
                       => /\ UNCHANGED <<frameStartTime, frameEntryCount,
                                         seenText, observer, pendingMutations>>
                          /\ out' = <<>>
          /\ recv'.action \in {"stop", "autoStopped"} => ~frameCapturing'
          /\ (recv'.action = "stop" /\ ~frameCapturing)
               => UNCHANGED frameCore /\ out' = <<>>]_vars

\* C22 witness: a frame that watches since its resynchronization, with an
\* entry in its dedupe memory, received a start directive with another
\* start time and entry count and kept its own.
C22_Witness ==
  /\ last.op = "frameMessage" /\ recv.action = "start"
  /\ frameCapturing /\ seenText # {}
  /\ frameStartTime = 500 /\ frameStartTime # recv.startTime
  /\ frameEntryCount = 2 /\ frameEntryCount # recv.count
\* C23: only a nested frame originates a signal, with hop counter 1; a
\* frame that accepts a signal forwards it to its parent with the counter
\* raised by one unless it is the top frame, which never forwards; a signal
\* is k levels above its origin with hop counter k; and every signal comes
\* to an end.
C23_RelayHops ==
  /\ [][last'.op = "chainSubmit"
          => /\ (signal' # NoSignal) <=> (last'.tab # 0)
             /\ signal' # NoSignal
                  => /\ signal'.depth = 1
                     /\ signal'.level = last'.tab - 1]_vars
  /\ [][last'.op = "chainHop"
          => /\ last'.outcome = "forwarded"
                  => /\ signal.level # 0
                     /\ signal'.level = signal.level - 1
                     /\ signal'.depth = signal.depth + 1
             /\ signal.level = 0 => signal' = NoSignal
             /\ (signal' # NoSignal) <=> (last'.outcome = "forwarded")]_vars
  /\ [](signal # NoSignal => signal.depth = signal.origin - signal.level)
  /\ (signal # NoSignal) ~> (signal = NoSignal)

\* C23 witness: a signal that is 9 levels above its origin is forwarded
\* once more and travels on with hop counter 10.
C23_Witness ==
  /\ last.op = "chainHop" /\ last.outcome = "forwarded"
  /\ signal # NoSignal
  /\ signal.depth = MAX_IFRAME_DEPTH
  /\ signal.origin - signal.level = MAX_IFRAME_DEPTH

\* The fingerprints of the entries a step submitted.
SubmittedHashes(o) ==
  {LocalHash(Calls(o, "captureText")[i].entry.text) :
     i \in 1..Len(Calls(o, "captureText"))}

\* C24: a frame never submits a text whose fingerprint is in its local
\* memory nor two texts of one fingerprint; the memory grows exactly by the
\* fingerprints of the submitted entries, so not by a rejected text; and it
\* is emptied when the frame starts and when it stops watching.
C24_LocalDedupe ==
  [][LET sent == Calls(out', "captureText")
         base == IF frameCapturing # frameCapturing' THEN {} ELSE seenText
     IN /\ \A i \in 1..Len(sent) : LocalHash(sent[i].entry.text) \notin base
        /\ \A i, j \in 1..Len(sent) :
             i # j => LocalHash(sent[i].entry.text)
                        # LocalHash(sent[j].entry.text)
        /\ seenText' = base \cup SubmittedHashes(out')
        /\ (frameCapturing /\ ~frameCapturing') => seenText' = {}]_vars

\* C24 witness: a processing pass walked changes in a watching frame whose
\* memory holds fingerprints and submitted nothing, each text being a
\* duplicate or rejected by a filter.
C24_Witness ==
  /\ last.op = "throttleTimer" /\ last.outcome = "processed"
  /\ frameCapturing
  /\ Calls(out, "captureText") = <<>>
  /\ seenText # {}

\* The position of a text in the submission order of its frame.
OrderIndex(text) == TextLength(text) - MIN_TEXT_LENGTH

\* C25: two entries of one frame are in the entry list in the order the
\* frame submitted them.
C25_FrameOrderKept ==
  \A i, j \in 1..Len(capturedText) :
    (i < j /\ capturedText[i].frameId = capturedText[j].frameId)
      => OrderIndex(capturedText[i].text) < OrderIndex(capturedText[j].text)

\* C25 witness: the list holds two entries of one frame in their order and
\* between them an entry of the other frame that was submitted before the
\* first of them was.
C25_Witness ==
  /\ Len(capturedText) = 3
  /\ capturedText[1].frameId = capturedText[3].frameId
  /\ capturedText[2].frameId # capturedText[1].frameId
  /\ capturedText[2].timestamp < capturedText[1].timestamp

\* C26: at most one processing pass is scheduled at a time and one is
\* scheduled whenever notifications are queued; a notification joins the
\* queue and, when a pass is scheduled already, schedules no other; a pass
\* walks the whole queue; and notifications leave the queue only by a pass
\* or by the frame leaving Watching.
C26_Batching ==
  /\ [](throttleTimers <= 1)
  /\ [](pendingMutations # <<>> => throttleTimers >= 1)
  /\ [][last'.op = "observerCallback"
          => /\ Len(pendingMutations') = Len(pendingMutations) + 1
             /\ SubSeq(pendingMutations', 1, Len(pendingMutations))
                  = pendingMutations
             /\ processingScheduled => UNCHANGED throttleTimers]_vars
  /\ [][last'.op = "throttleTimer"
          => /\ pendingMutations' = <<>>
             /\ out' = ProcessAll(pendingMutations, seenText).sent]_vars
  /\ [][Len(pendingMutations') < Len(pendingMutations)
          => \/ last'.op = "throttleTimer"
             \/ frameCapturing /\ ~frameCapturing']_vars

\* C27: a processing pass that walks notifications runs only when the full
\* window has elapsed since the most recent notification.
C27_TrailingDebounce ==
  [][(last'.op = "throttleTimer" /\ pendingMutations # <<>>)
       => now >= notifiedAt + THROTTLE_MS]_vars

\* C27 as amended: a notification that finds no pass scheduled arms a timer
\* due one window later; a notification that finds a pass scheduled joins
\* its queue and leaves every timer as it is; and a pass runs no sooner
\* than the time its timer was armed for.
C27_LeadingThrottle ==
  /\ [][last'.op = "observerCallback"
          => /\ notifiedAt' = now
             /\ IF processingScheduled
                THEN throttleDue' = throttleDue
                ELSE throttleDue' = Append(throttleDue, now + THROTTLE_MS)]_vars
  /\ [][last'.op = "throttleTimer"
          => /\ now >= Head(throttleDue)
             /\ throttleDue' = Tail(throttleDue)]_vars

\* C27 witness: a pass has just walked notifications the latest of which
\* arrived less than one window before, while that pass was scheduled.
C27_Witness ==
  /\ last.op = "throttleTimer" /\ last.outcome = "processed"
  /\ frameCapturing
  /\ notifiedAt > 0
  /\ now < notifiedAt + THROTTLE_MS
  /\ throttleTimers = 0

\* The aggregator's session state once stopCapture has run to its end.
AfterStop == <<isCapturing, captureStartTime, <<>>, {}, NoTab, 0>>

\* C28: whether a directive was answered or its delivery failed, the
\* aggregator goes on in the same way: the settlement of a start or
\* updateCount directive changes nothing, so a started session stays
\* Recording on its tab; after a stop directive stopCapture runs to its end;
\* after an autoStopped directive stopCapture is called.
C28_FailedDelivery ==
  /\ [][last'.op \in {"startSettled", "countSettled"}
          => UNCHANGED aggVars /\ out' = <<>>]_vars
  /\ [][last'.op = "start" /\ last'.outcome = "started"
          => isCapturing' /\ activeTabId' = last'.tab]_vars
  /\ [][last'.op = "stopResume"
          => /\ aggVars' = AfterStop
             /\ out' = saveCapture]_vars
  /\ [][last'.op = "autoStopResume"
          => /\ ~isCapturing'
             /\ isCapturing /\ activeTabId # NoTab
                  => /\ Calls(out', "stop") # <<>>
                     /\ UNCHANGED <<capturedText, seenHashes,
                                    currentCaptureSize, activeTabId>>
             /\ ~isCapturing => UNCHANGED aggVars /\ out' = <<>>]_vars

\* C28 witness: the delivery of the stop directive failed and stopCapture
\* saved the session's entries and reset the session all the same.
C28_Witness ==
  /\ last.op = "stopResume" /\ last.outcome = "failed"
  /\ Calls(out, "download") # <<>>
  /\ ~isCapturing /\ capturedText = <<>> /\ activeTabId = NoTab

\* C29: while the aggregator is Recording a tab is bound; the call that
\* opens a session binds the tab it was given, and the binding stays as it
\* is for as long as the aggregator is Recording.
C29_BoundWhileRecording ==
  /\ [](isCapturing => activeTabId # NoTab)
  /\ [][(~isCapturing /\ isCapturing') => activeTabId' = last'.tab]_vars
  /\ [][(isCapturing /\ isCapturing') => activeTabId' = activeTabId]_vars

\* C30: every start directive, that of startCapture and every one sent
\* after a navigation, is sent while the aggregator is Recording and to the
\* tab bound at that moment.
C30_StartOnlyWhileRecording ==
  [][\A i \in 1..Len(Calls(out', "start")) :
       /\ isCapturing'
       /\ Calls(out', "start")[i].tab = activeTabId']_vars

\* The connected observers of document.body.
ActiveObservers == (IF observer THEN 1 ELSE 0) + orphanObservers

\* C31: a frame that is not Watching has no connected change observer and
\* sends no entry, and a frame never has more than one connected change
\* observer.
C31_OnlyWhileWatching ==
  /\ [](~frameCapturing => ActiveObservers = 0)
  /\ [](ActiveObservers <= 1)
  /\ [][Calls(out', "captureText") # <<>> => frameCapturing']_vars
====
